---- MODULE Spec2Model ----
(***************************************************************************)
(* A model of the widget library of panel.py: the widgets Surface, Label,  *)
(* Button, Toggle and Input, and the Panel that owns them, scrolls them    *)
(* and dispatches events to them.                                          *)
(*                                                                         *)
(* Numbers of type Real (scroll offsets, wheel deltas) are fixed-point:    *)
(* the integer n stands for n / Den.  Positions of events, anchors and     *)
(* pygame Rects are whole pixels: a pygame Rect stores integers and an     *)
(* assignment of a Real to one of its fields truncates toward zero.        *)
(* Strings are sequences of characters.                                    *)
(***************************************************************************)
EXTENDS Integers, Sequences, FiniteSets, TLC

\* ------------------------------------------------------------------ bounds

\* The deepest min_scroll a Panel is constructed with, in wheel steps.
MaxDepth == 3
\* The largest capacity max_chars an Input is constructed with.
MaxChars == 3
\* The longest string a text-input event carries.
MaxInsert == 2
\* The number of press-down events inside the Button or the Toggle a run counts.
MaxPresses == 2

\* ------------------------------------------------------- program constants

\* panel.py:377  self.scroll += event.precise_y * 10
WheelStep == 10

\* The denominator of the fixed-point representation of a Real.
Den == 4

\* ----------------------------------------------------------------- helpers

Min(a, b) == IF a < b THEN a ELSE b
Max(a, b) == IF a > b THEN a ELSE b

\* pg.math.clamp(value, lo, hi)
clamp(value, lo, hi) == IF value < lo THEN lo ELSE IF value > hi THEN hi ELSE value

\* The integer a pygame Rect stores when it is assigned the Real n / Den:
\* the C cast (int)dv, which truncates toward zero.
ToInt(n) == IF n >= 0 THEN n \div Den ELSE -((-n) \div Den)

\* Python's s[lo:hi], negative indices counted from the end.
PyIndex(s, i) == IF i < 0 THEN Max(i + Len(s), 0) ELSE Min(i, Len(s))
PySlice(s, lo, hi) ==
    LET a == PyIndex(s, lo)
        b == PyIndex(s, hi)
    IN  IF a < b THEN SubSeq(s, a + 1, b) ELSE << >>
\* s[:hi] and s[lo:]
PyTo(s, hi) == PySlice(s, 0, hi)
PyFrom(s, lo) == PySlice(s, lo, Len(s))

\* ------------------------------------------------------------------- font

Chars == {"a", "b"}

\* The strings over Chars of length lo..hi.
RECURSIVE StringsOfLen(_)
StringsOfLen(n) ==
    IF n = 0 THEN {<< >>}
    ELSE {Append(s, c) : s \in StringsOfLen(n - 1), c \in Chars}
Strings(lo, hi) == UNION {StringsOfLen(n) : n \in lo..hi}

\* font.size(c)[0] of one character, in pixels.
CharWidth(c) == IF c = "a" THEN 3 ELSE 4

\* font.size(s)[0]: the rendered width of s, the sum of its characters' widths.
RECURSIVE FontWidth(_)
FontWidth(s) == IF s = << >> THEN 0 ELSE FontWidth(PyTo(s, Len(s) - 1)) + CharWidth(s[Len(s)])

\* font.get_height(), in pixels.
FontHeight == 2

\* ---------------------------------------------------------------- widgets

\* The widgets of the model: one of each variant and a second Input.
Widgets == {"surface", "label", "button", "toggle", "input", "input2"}

\* One widget of each variant.
OneOfEach == {"surface", "label", "button", "toggle", "input"}

\* The anchor position each widget is constructed with (_Widget._pos).
pos(w) ==
    CASE w = "surface" -> <<0, 0>>
      [] w = "label"   -> <<0, 2>>
      [] w = "button"  -> <<0, 4>>
      [] w = "toggle"  -> <<0, 8>>
      [] w = "input"   -> <<2, 12>>
      [] w = "input2"  -> <<2, 15>>

\* The width an Input is constructed with (Input._width), in pixels.
InputWidth == 12

\* pg.Rect(p, size)
Rect(p, size) == [x |-> p[1], y |-> p[2], w |-> size[1], h |-> size[2]]

\* rect.collidepoint(p): the right and bottom edges are outside.
collidepoint(r, p) ==
    /\ r.x <= p[1] /\ p[1] < r.x + r.w
    /\ r.y <= p[2] /\ p[2] < r.y + r.h

\* ----------------------------------------------------------------- events

NoKey == "K_NONE"
Keys == {"K_h", "K_BACKSPACE", "K_d", "K_DELETE", "K_u", "K_b", "K_LEFT",
         "K_f", "K_RIGHT", "K_a", "K_e", "K_ESCAPE", "K_x"}
Mods == {{}, {"KMOD_CTRL"}}

MouseButtonDown(p) ==
    [type |-> "MOUSEBUTTONDOWN", pos |-> p, precise_y |-> 0, text |-> << >>,
     key |-> NoKey, mod |-> {}]
MouseWheel(d) ==
    [type |-> "MOUSEWHEEL", pos |-> <<0, 0>>, precise_y |-> d, text |-> << >>,
     key |-> NoKey, mod |-> {}]
TextInput(s) ==
    [type |-> "TEXTINPUT", pos |-> <<0, 0>>, precise_y |-> 0, text |-> s,
     key |-> NoKey, mod |-> {}]
KeyDown(k, m) ==
    [type |-> "KEYDOWN", pos |-> <<0, 0>>, precise_y |-> 0, text |-> << >>,
     key |-> k, mod |-> m]
NoEvent ==
    [type |-> "NONE", pos |-> <<0, 0>>, precise_y |-> 0, text |-> << >>,
     key |-> NoKey, mod |-> {}]

\* ------------------------------------------------------------ _Widget

\* _Widget.scroll (setter): the rect of a widget anchored at p after
\* self._rect.y = self._pos[1] + value.
Widget_scroll_rect(r, p, value) == [r EXCEPT !.y = ToInt(p[2] * Den + value)]

\* ------------------------------------------------------- Button, Toggle

\* The setter without its line self._rect.y = self._pos[1] + self._scroll.
Text_rect_unscrolled(p, value, scr) == Rect(p, <<FontWidth(value), FontHeight>>)

\* Button.text and Toggle.text (setter): the rect of the widget anchored at p
\* whose scroll offset is scr, after its text is set to value.
Text_rect(p, value, scr) ==
    [Rect(p, <<FontWidth(value), FontHeight>>) EXCEPT !.y = ToInt(p[2] * Den + scr)]

\* The handler without its collidepoint test.
Button_handle_event_anywhere(self, r, event) ==
    IF event.type = "MOUSEBUTTONDOWN"
    THEN [self EXCEPT !.calls = @ + 1]
    ELSE self

\* Button.handle_event: calls counts the invocations of self._func.
Button_handle_event(self, r, event) ==
    IF event.type = "MOUSEBUTTONDOWN" /\ collidepoint(r, event.pos)
    THEN [self EXCEPT !.calls = @ + 1]
    ELSE self

\* The handler setting the state instead of flipping it: self._state = True.
Toggle_handle_event_sets(self, r, event) ==
    IF event.type = "MOUSEBUTTONDOWN" /\ collidepoint(r, event.pos)
    THEN [self EXCEPT !.state = TRUE]
    ELSE self

\* Toggle.handle_event
Toggle_handle_event(self, r, event) ==
    IF event.type = "MOUSEBUTTONDOWN" /\ collidepoint(r, event.pos)
    THEN [self EXCEPT !.state = ~@]
    ELSE self

\* The update that takes a held primary button over the Button for a click.
Button_update_calls(self, r, mouse_pos, mouse_pressed) ==
    LET collision == collidepoint(r, mouse_pos)
    IN  IF mouse_pressed[1] /\ collision
        THEN [self EXCEPT !.surf = 2, !.calls = @ + 1]
        ELSE [self EXCEPT !.surf = IF collision THEN 1 ELSE 0]

\* Button.update: surf is the index into _surfs of the surface chosen;
\* mouse_pressed[1] is the primary button (mouse_pressed[0] in the source).
Button_update(self, r, mouse_pos, mouse_pressed) ==
    LET collision == collidepoint(r, mouse_pos)
    IN  IF mouse_pressed[1] /\ collision
        THEN [self EXCEPT !.surf = 2]
        ELSE [self EXCEPT !.surf = IF collision THEN 1 ELSE 0]

\* Toggle.update
Toggle_update(self, r, mouse_pos, mouse_pressed) ==
    LET collision == collidepoint(r, mouse_pos)
    IN  IF self.state
        THEN [self EXCEPT !.surf = 2 + (IF collision THEN 1 ELSE 0)]
        ELSE [self EXCEPT !.surf = IF collision THEN 1 ELSE 0]

\* ------------------------------------------------------------------ Input

\* The setter without its line self._cursor_pos = min(self._cursor_pos, len(value)).
Input_text_setter_keeps_cursor(self, value) ==
    [self EXCEPT !.text = PyTo(value, self.max_chars)]

\* Input.text (setter)
Input_text_setter(self, value) ==
    [self EXCEPT !.text = PyTo(value, self.max_chars),
                 !.cursor_pos = Min(self.cursor_pos, Len(value))]

\* Input.cursor_pos (setter): the value assigned is not used.
Input_cursor_pos_setter(self, value) ==
    [self EXCEPT !.cursor_pos = clamp(self.cursor_pos, 0, Len(self.text))]

\* The cursor placement loop of Input.handle_event, from index dex on, old
\* being the last width calculated; the for's else clause is the first branch.
RECURSIVE Input_click_loop(_, _, _, _)
Input_click_loop(t, x, dex, old) ==
    IF dex > Len(t) THEN Len(t)
    ELSE LET width == FontWidth(PyTo(t, dex))
         IN  IF old <= x /\ x < width
             THEN dex - (IF 2 * x < width + old THEN 1 ELSE 0)
             ELSE Input_click_loop(t, x, dex + 1, width)

\* The cursor position a press-down at x-offset x inside the field gives.
Input_click_cursor(t, x) == Input_click_loop(t, x, 0, 0)

\* The branch focusing on a press-down inside and ignoring one outside.
Input_mousebuttondown_sticky(self, r, p, event) ==
    LET collision == collidepoint(r, event.pos)
    IN  IF collision
        THEN [self EXCEPT !.cursor_pos =
                            Input_click_cursor(self.text, event.pos[1] - p[1]),
                          !.focused = TRUE]
        ELSE self

\* The branch taking the press-down's x for the offset into the field:
\* x = event.pos[0].
Input_mousebuttondown_absolute(self, r, p, event) ==
    LET collision == collidepoint(r, event.pos)
        placed == IF collision
                  THEN [self EXCEPT !.cursor_pos =
                            Input_click_cursor(self.text, event.pos[1])]
                  ELSE self
    IN  [placed EXCEPT !.focused = collision]

\* The MOUSEBUTTONDOWN branch of Input.handle_event, for an Input anchored at
\* p with rect r.
Input_mousebuttondown(self, r, p, event) ==
    LET collision == collidepoint(r, event.pos)
        placed == IF collision
                  THEN [self EXCEPT !.cursor_pos =
                            Input_click_cursor(self.text, event.pos[1] - p[1])]
                  ELSE self
    IN  [placed EXCEPT !.focused = collision]

\* The TEXTINPUT branch; length is len(self._text) at the handler's entry.
Input_textinput(self, length, event) ==
    LET c == self.cursor_pos
        head == PyTo(self.text, c) \o event.text
        text == IF c < length THEN head \o PyFrom(self.text, c) ELSE head
        set == Input_text_setter(self, text)
    IN  [set EXCEPT !.cursor_pos = Min(set.cursor_pos + 1, self.max_chars)]

\* The branch without its line self._cursor_pos = max(self._cursor_pos - 1, 0).
Input_backspace_keeps_cursor(self, length) ==
    LET c == self.cursor_pos
        head == PyTo(self.text, c - 1)
    IN  IF c < length
        THEN Input_text_setter(self, head \o PyFrom(self.text, c))
        ELSE Input_text_setter(self, head)

\* The backspace / ctrl-H branch.
Input_backspace(self, length) ==
    LET c == self.cursor_pos
        head == PyTo(self.text, c - 1)
    IN  IF c < length
        THEN Input_text_setter([self EXCEPT !.cursor_pos = Max(c - 1, 0)],
                               head \o PyFrom(self.text, c))
        ELSE Input_text_setter(self, head)

\* The branch without the text after the deleted character.
Input_delete_truncates(self, length) ==
    Input_text_setter(self, PyTo(self.text, self.cursor_pos))

\* The delete / ctrl-D branch.
Input_delete(self, length) ==
    LET c == self.cursor_pos
        head == PyTo(self.text, c)
    IN  IF c < length - 1
        THEN Input_text_setter(self, head \o PyFrom(self.text, c + 1))
        ELSE Input_text_setter(self, head)

\* The branch without its line self._cursor_pos = 0.
Input_kill_keeps_cursor(self) ==
    Input_text_setter(self, PyFrom(self.text, self.cursor_pos))

\* The ctrl-U branch.
Input_kill(self) ==
    [Input_text_setter(self, PyFrom(self.text, self.cursor_pos)) EXCEPT !.cursor_pos = 0]

\* The KEYDOWN branch: the backspace test is an if of its own, the other
\* keys are one if / elif chain after it.
Input_keydown(self, length, event) ==
    LET ctrl == "KMOD_CTRL" \in event.mod
        key == event.key
        s1 == IF (key = "K_h" /\ ctrl) \/ key = "K_BACKSPACE"
              THEN Input_backspace(self, length)
              ELSE self
    IN  IF (key = "K_d" /\ ctrl) \/ key = "K_DELETE" THEN Input_delete(s1, length)
        ELSE IF key = "K_u" /\ ctrl THEN Input_kill(s1)
        ELSE IF (key = "K_b" /\ ctrl) \/ key = "K_LEFT"
             THEN [s1 EXCEPT !.cursor_pos = Max(@ - 1, 0)]
        ELSE IF (key = "K_f" /\ ctrl) \/ key = "K_RIGHT"
             THEN [s1 EXCEPT !.cursor_pos = Min(@ + 1, length)]
        ELSE IF key = "K_a" /\ ctrl THEN [s1 EXCEPT !.cursor_pos = 0]
        ELSE IF key = "K_e" /\ ctrl THEN [s1 EXCEPT !.cursor_pos = Len(s1.text)]
        ELSE IF key = "K_ESCAPE" THEN [s1 EXCEPT !.focused = FALSE]
        ELSE s1

\* The handler without its test of self._focused.
Input_handle_event_unfocused(self, r, p, event) ==
    LET length == Len(self.text)
        s1 == IF event.type = "MOUSEBUTTONDOWN"
              THEN Input_mousebuttondown(self, r, p, event)
              ELSE self
    IN  IF event.type = "TEXTINPUT" THEN Input_textinput(s1, length, event)
        ELSE IF event.type = "KEYDOWN" THEN Input_keydown(s1, length, event)
        ELSE s1

\* Input.handle_event, for an Input anchored at p with rect r.
Input_handle_event(self, r, p, event) ==
    LET length == Len(self.text)
        s1 == IF event.type = "MOUSEBUTTONDOWN"
              THEN Input_mousebuttondown(self, r, p, event)
              ELSE self
    IN  IF ~s1.focused THEN s1
        ELSE IF event.type = "TEXTINPUT" THEN Input_textinput(s1, length, event)
        ELSE IF event.type = "KEYDOWN" THEN Input_keydown(s1, length, event)
        ELSE s1

\* ------------------------------------------------------------------ Panel

\* The setter clamping at 0 only: min(value, 0).
Panel_scroll_value_no_floor(value, lo) == IF value > 0 THEN 0 ELSE value

\* Panel.scroll (setter): the value stored in self._scroll.
Panel_scroll_value(value, lo) == clamp(value, lo, 0)

\* The wheel scrolling the other way: self.scroll -= event.precise_y * 10.
Panel_wheel_value_inverted(s, precise_y) == s - precise_y * WheelStep

\* Panel.handle_event: the value a wheel event of delta precise_y assigns to
\* self.scroll when it is s.
Panel_wheel_value(s, precise_y) == s + precise_y * WheelStep

\* The setter handing each widget the value assigned: widget.scroll = value.
Panel_scroll_propagated_raw(value, stored) == value

\* The value Panel.scroll (setter) assigns to each widget's scroll, value being
\* the value assigned and stored the value it stored in self._scroll.
Panel_scroll_propagated(value, stored) == stored

\* ------------------------------------------------------------------ state

VARIABLES
    min_scroll,    \* Panel._min_scroll
    panel_scroll,  \* Panel._scroll
    scroll,        \* _Widget._scroll of each widget
    rect,          \* _Widget._rect of each widget
    label,         \* the Label: [text]
    widgets,       \* Panel._widgets: the widgets the Panel owns
    button,        \* the Button: [text, calls, surf], calls the invocations
                   \* of _func, surf the index into _surfs of _surf
    toggle,        \* the Toggle: [text, state, surf]
    input,         \* the Input: [text, cursor_pos, focused, max_chars]
    input2,        \* the second Input
    presses,       \* history: the press-down events handled inside the rect
                   \* of the Button and of the Toggle, counted
    last           \* history: the last operation, its arguments and the
                   \* state before it

vars == <<min_scroll, panel_scroll, scroll, rect, widgets, label, button, toggle,
          input, input2, presses, last>>

panel_vars == <<min_scroll, panel_scroll, scroll, rect, widgets, label, button,
                toggle, input2, presses>>

\* The part of the state `last` keeps from before the operation.
Pre == [panel_scroll |-> panel_scroll, input |-> input, state |-> toggle.state]

Op(name, event, value) == [op |-> name, event |-> event, value |-> value, pre |-> Pre]

\* The widgets as constructed: _Widget.__init__ gives every widget scroll 0
\* and the rect Rect(pos, (0, 0)); the text setter of a Button and of a
\* Toggle, and Input.__init__, replace the rect.
NewLabel == [text |-> <<"a">>]
NewButton == [text |-> <<"a">>, calls |-> 0, surf |-> 0]
NewToggle == [text |-> <<"a">>, state |-> FALSE, surf |-> 0]
NewInput(cap) == [text |-> << >>, cursor_pos |-> 0, focused |-> FALSE, max_chars |-> cap]
NewRect(w) ==
    CASE w = "button" -> Text_rect(pos(w), <<"a">>, 0)
      [] w = "toggle" -> Text_rect(pos(w), <<"a">>, 0)
      [] w = "input"  -> Rect(pos(w), <<InputWidth, FontHeight>>)
      [] w = "input2" -> Rect(pos(w), <<InputWidth, FontHeight>>)
      [] OTHER        -> Rect(pos(w), <<0, 0>>)

InitWidgets(cap) ==
    /\ scroll = [w \in Widgets |-> 0]
    /\ label = NewLabel
    /\ button = NewButton
    /\ toggle = NewToggle
    /\ input = NewInput(cap)
    /\ input2 = NewInput(1)
    /\ rect = [w \in Widgets |-> NewRect(w)]
    /\ presses = [button |-> 0, toggle |-> 0]
    /\ last = [op |-> "init", event |-> NoEvent, value |-> 0,
               pre |-> [panel_scroll |-> 0, input |-> input, state |-> FALSE]]

\* Panel.__init__
InitPanel(value) ==
    /\ widgets = value
    /\ min_scroll \in {0, -(MaxDepth * WheelStep)}
    /\ panel_scroll = 0

\* A Panel owning one widget of each variant, the Input of capacity 1.
Init ==
    /\ InitPanel(OneOfEach)
    /\ InitWidgets(1)

\* ---------------------------------------------------------- Panel actions

\* Panel.scroll (setter): the widgets in _widgets are given the scroll.
Panel_scroll_setter(value) ==
    /\ panel_scroll' = Panel_scroll_value(value, min_scroll)
    /\ scroll' = [w \in Widgets |->
                    IF w \in widgets
                    THEN Panel_scroll_propagated(value, panel_scroll')
                    ELSE scroll[w]]
    /\ rect' = [w \in Widgets |->
                  IF w \in widgets
                  THEN Widget_scroll_rect(rect[w], pos(w), scroll'[w])
                  ELSE rect[w]]

\* The values the host assigns to Panel.scroll: below min_scroll, a
\* fraction of a pixel inside the range, above 0.
ScrollValues == {-(MaxDepth * WheelStep) - 15, -6, 3}

\* panel.scroll = v
SetScroll(v) ==
    /\ Panel_scroll_setter(v)
    /\ last' = Op("set_scroll", NoEvent, v)
    /\ UNCHANGED <<min_scroll, widgets, label, button, toggle, input, input2, presses>>

\* Whether the press-down at p lies inside the bounding rect of widget w.
Inside(w, p) ==
    /\ rect[w].x <= p[1] /\ p[1] <= rect[w].x + rect[w].w - 1
    /\ rect[w].y <= p[2] /\ p[2] <= rect[w].y + rect[w].h - 1

Counted(w, event) ==
    IF w \in widgets /\ event.type = "MOUSEBUTTONDOWN" /\ Inside(w, event.pos)
    THEN presses[w] + 1
    ELSE presses[w]

\* The events the host hands to Panel.handle_event: wheel deltas of -3, -1/4
\* and +1/4, press-downs on a grid of points, text input and keys.
WheelDeltas == {-3 * Den, -1, 1}
PanelEvents ==
    {MouseButtonDown(<<x, y>>) : x \in {2, 5}, y \in {0, 4, 8, 12}}
    \cup {MouseButtonDown(<<20, 0>>)}
    \cup {MouseWheel(d) : d \in WheelDeltas}
    \cup {TextInput(<<"a">>), KeyDown("K_ESCAPE", {}), KeyDown("K_BACKSPACE", {})}

\* Panel.handle_event: every widget in _widgets handles the event (Surface
\* and Label inherit the empty _Widget.handle_event), then a wheel event
\* scrolls.
HandleEvent(event) ==
    /\ button' = IF "button" \in widgets
                 THEN Button_handle_event(button, rect["button"], event)
                 ELSE button
    /\ toggle' = IF "toggle" \in widgets
                 THEN Toggle_handle_event(toggle, rect["toggle"], event)
                 ELSE toggle
    /\ input' = IF "input" \in widgets
                THEN Input_handle_event(input, rect["input"], pos("input"), event)
                ELSE input
    /\ input2' = IF "input2" \in widgets
                 THEN Input_handle_event(input2, rect["input2"], pos("input2"), event)
                 ELSE input2
    /\ IF event.type = "MOUSEWHEEL"
       THEN Panel_scroll_setter(Panel_wheel_value(panel_scroll, event.precise_y))
       ELSE UNCHANGED <<panel_scroll, scroll, rect>>
    /\ presses' = [w \in {"button", "toggle"} |-> Counted(w, event)]
    /\ presses'["button"] <= MaxPresses /\ presses'["toggle"] <= MaxPresses
    /\ button'.calls <= MaxPresses
    /\ last' = Op("handle_event", event, 0)
    /\ UNCHANGED <<min_scroll, widgets, label>>

\* The texts the host assigns to a Label, a Button or a Toggle.
Texts == {<<"a">>, <<"a", "b">>}

\* label.text = v: Label.text (setter) renders the text and leaves _rect alone.
SetLabelText(v) ==
    /\ label' = [label EXCEPT !.text = v]
    /\ last' = Op("set_label_text", NoEvent, 0)
    /\ UNCHANGED <<min_scroll, panel_scroll, scroll, rect, widgets, button, toggle,
                   input, input2, presses>>

\* button.text = v
SetButtonText(v) ==
    /\ button' = [button EXCEPT !.text = v]
    /\ rect' = [rect EXCEPT !["button"] = Text_rect(pos("button"), v, scroll["button"])]
    /\ last' = Op("set_button_text", NoEvent, 0)
    /\ UNCHANGED <<min_scroll, panel_scroll, scroll, widgets, label, toggle, input,
                   input2, presses>>

\* toggle.text = v
SetToggleText(v) ==
    /\ toggle' = [toggle EXCEPT !.text = v]
    /\ rect' = [rect EXCEPT !["toggle"] = Text_rect(pos("toggle"), v, scroll["toggle"])]
    /\ last' = Op("set_toggle_text", NoEvent, 0)
    /\ UNCHANGED <<min_scroll, panel_scroll, scroll, widgets, label, button, input,
                   input2, presses>>

\* input.text = v
SetInputText(v) ==
    /\ input' = Input_text_setter(input, v)
    /\ last' = [Op("set_input_text", NoEvent, 0) EXCEPT !.event.text = v]
    /\ UNCHANGED panel_vars

Next ==
    \/ \E v \in ScrollValues : SetScroll(v)
    \/ \E event \in PanelEvents : HandleEvent(event)
    \/ \E v \in Texts : SetLabelText(v)
    \/ \E v \in Texts : SetButtonText(v)
    \/ \E v \in Texts : SetToggleText(v)
    \/ \E v \in Texts : SetInputText(v)

Spec == Init /\ [][Next]_vars

\* ------------------------------------------------- a single Input's actions

\* An Input of any capacity up to MaxChars, with the events handed to it
\* directly.
InitInput ==
    /\ InitPanel(OneOfEach)
    /\ \E cap \in 0..MaxChars : InitWidgets(cap)

\* Press-downs along the field's row (the last one right of the field) and
\* above it, text input of every string of 1..MaxInsert characters (the
\* platform posts no text-input event with an empty string), every key with
\* and without ctrl, and a wheel event.
InputEvents ==
    {MouseButtonDown(<<x, 12>>) : x \in 2..(2 + InputWidth)}
    \cup {MouseButtonDown(<<0, 0>>)}
    \cup {TextInput(s) : s \in Strings(1, MaxInsert)}
    \cup {KeyDown(k, m) : k \in Keys, m \in Mods}
    \cup {MouseWheel(1)}

\* input.handle_event(event)
InputHandleEvent(event) ==
    /\ input' = Input_handle_event(input, rect["input"], pos("input"), event)
    /\ last' = Op("handle_event", event, 0)
    /\ UNCHANGED panel_vars

\* input.text = v
InputSetText(v) ==
    /\ input' = Input_text_setter(input, v)
    /\ last' = [Op("set_input_text", NoEvent, 0) EXCEPT !.event.text = v]
    /\ UNCHANGED panel_vars

NextInput ==
    \/ \E event \in InputEvents : InputHandleEvent(event)
    \/ \E v \in Strings(0, MaxInsert) : InputSetText(v)

SpecInput == InitInput /\ [][NextInput]_vars

\* input.cursor_pos = v
InputSetCursorPos(v) ==
    /\ input' = Input_cursor_pos_setter(input, v)
    /\ last' = Op("set_cursor_pos", NoEvent, v)
    /\ UNCHANGED panel_vars

\* A single Input whose cursor_pos is assigned too: negative values, values
\* in range and values above every length.
NextCursor ==
    \/ \E event \in InputEvents : InputHandleEvent(event)
    \/ \E v \in Strings(0, MaxInsert) : InputSetText(v)
    \/ \E v \in -1..(MaxChars + 1) : InputSetCursorPos(v)

SpecCursor == InitInput /\ [][NextCursor]_vars

\* ------------------------------------------------------ the per-frame update

\* Panel.update: every widget in _widgets is updated (Surface, Label and
\* Input inherit the empty _Widget.update).
Update(mouse_pos, mouse_pressed) ==
    /\ button' = IF "button" \in widgets
                 THEN Button_update(button, rect["button"], mouse_pos, mouse_pressed)
                 ELSE button
    /\ toggle' = IF "toggle" \in widgets
                 THEN Toggle_update(toggle, rect["toggle"], mouse_pos, mouse_pressed)
                 ELSE toggle
    /\ last' = Op("update", [NoEvent EXCEPT !.pos = mouse_pos],
                  IF mouse_pressed[1] THEN 1 ELSE 0)
    /\ UNCHANGED <<min_scroll, panel_scroll, scroll, rect, widgets, label, input,
                   input2, presses>>

\* Pointer positions over the Button, over the Toggle and over neither.
MousePositions == {<<2, 4>>, <<2, 8>>, <<20, 0>>}

\* pg.mouse.get_pressed(): nothing held, the primary button held, the
\* secondary button held.
MousePressed == {<<FALSE, FALSE, FALSE>>, <<TRUE, FALSE, FALSE>>, <<FALSE, TRUE, FALSE>>}

\* Press-downs at the pointer positions and wheel events of -1/4 and +1/4.
FrameEvents ==
    {MouseButtonDown(p) : p \in MousePositions} \cup {MouseWheel(d) : d \in {-1, 1}}

\* The host's frame loop: events are handled, then the Panel is updated.
NextFrame ==
    \/ \E event \in FrameEvents : HandleEvent(event)
    \/ \E p \in MousePositions, b \in MousePressed : Update(p, b)

SpecFrame == Init /\ [][NextFrame]_vars

\* ------------------------------------------------------ a Panel of two Inputs

\* A Panel owning two Inputs of capacity 1, the second one pixel row below
\* the first.
InitFocus ==
    /\ InitPanel({"input", "input2"})
    /\ InitWidgets(1)

\* Press-downs down a column through both fields and outside both, wheel
\* events, text input and the escape key.
FocusEvents ==
    {MouseButtonDown(<<3, y>>) : y \in 8..16}
    \cup {MouseButtonDown(<<20, 0>>)}
    \cup {MouseWheel(d) : d \in WheelDeltas}
    \cup {TextInput(<<"a">>), KeyDown("K_ESCAPE", {})}

\* Every event reaches the Inputs through Panel.handle_event.
NextFocus ==
    \/ \E event \in FocusEvents : HandleEvent(event)
    \/ \E v \in ScrollValues : SetScroll(v)

SpecFocus == InitFocus /\ [][NextFocus]_vars

\* ------------------------------------------------ replacing the widget set

\* Panel.widgets (setter): _widgets becomes the value and nothing else is
\* assigned.
Panel_widgets_setter(value) ==
    /\ widgets' = value
    /\ UNCHANGED <<min_scroll, panel_scroll>>

\* panel.widgets = value, the value a set of widgets constructed for the
\* assignment: they are as their constructors leave them, scroll 0. The
\* widgets the Panel owned before are out of its reach; their slots hold the
\* constructed state as well.
SetWidgets(value) ==
    /\ Panel_widgets_setter(value)
    /\ scroll' = [w \in Widgets |-> 0]
    /\ rect' = [w \in Widgets |-> NewRect(w)]
    /\ label' = NewLabel
    /\ button' = NewButton
    /\ toggle' = NewToggle
    /\ input' = NewInput(input.max_chars)
    /\ input2' = NewInput(input2.max_chars)
    /\ presses' = [button |-> 0, toggle |-> 0]
    /\ last' = Op("set_widgets", NoEvent, 0)

\* The sets the host assigns to Panel.widgets.
WidgetSets == {{"label"}, {"surface", "button", "toggle"}, {"input", "input2"}, OneOfEach}

\* The Panel operations: scroll assignment, events, and replacement of the
\* widget set.
NextWidgets ==
    \/ \E v \in ScrollValues : SetScroll(v)
    \/ \E event \in FrameEvents : HandleEvent(event)
    \/ \E value \in WidgetSets : SetWidgets(value)

SpecWidgets == Init /\ [][NextWidgets]_vars

\* ------------------------------------------------------------- properties

\* Whether the last operation was handle_event of an event of type t.
Handled(t) == last.op = "handle_event" /\ last.event.type = t

\* C1: in every state an Input reaches by handle_event calls and text
\* assignments, 0 <= cursor_pos <= len(text) <= max_chars.
C1_CursorWithinText ==
    /\ 0 <= input.cursor_pos
    /\ input.cursor_pos <= Len(input.text)
    /\ Len(input.text) <= input.max_chars

\* C1's case: a text-input event whose string did not fit was handled, and
\* the Input is full with the cursor at the end.
C1_Witness ==
    /\ Handled("TEXTINPUT")
    /\ last.pre.input.focused
    /\ Len(last.pre.input.text) + Len(last.event.text) > input.max_chars
    /\ input.max_chars = MaxChars
    /\ Len(input.text) = MaxChars
    /\ input.cursor_pos = MaxChars

\* C2: min_scroll <= scroll <= 0 in every state a Panel constructed with
\* min_scroll <= 0 reaches by scroll assignments and wheel events.
C2_ScrollInRange == min_scroll <= panel_scroll /\ panel_scroll <= 0

\* C2's case: a wheel event that would scroll below min_scroll was handled.
C2_Witness ==
    /\ Handled("MOUSEWHEEL")
    /\ min_scroll < 0
    /\ last.pre.panel_scroll + 10 * last.event.precise_y < min_scroll
    /\ panel_scroll = min_scroll

\* C3: after panel.scroll = v the Panel stores clamp(v, min_scroll, 0) and
\* every widget's scroll offset is that clamped value.
C3_ScrollPropagated ==
    last.op = "set_scroll" =>
        LET v == last.value
            clamped == IF v < min_scroll THEN min_scroll ELSE IF v > 0 THEN 0 ELSE v
        IN  /\ panel_scroll = clamped
            /\ \A w \in widgets : scroll[w] = clamped

\* C3's case: a value below min_scroll was assigned, so that the clamped
\* value differs from the raw one.
C3_Witness ==
    /\ last.op = "set_scroll"
    /\ last.value < min_scroll
    /\ min_scroll < 0
    /\ \A w \in widgets : scroll[w] = min_scroll

\* anchor y + scroll offset of widget w, as a fixed-point Real.
ExactY(w) == pos(w)[2] * Den + scroll[w]

\* C4 as stated: every widget's bounding rect y equals its anchor y plus its
\* scroll offset.
C4_RectYExact == \A w \in widgets : rect[w].y * Den = ExactY(w)

\* C4 as amended: every widget's bounding rect y is its anchor y plus its
\* scroll offset truncated toward zero to a whole pixel, so the two are
\* equal whenever the sum is a whole number.
C4_RectYTruncated ==
    \A w \in widgets :
        IF ExactY(w) >= 0
        THEN rect[w].y * Den <= ExactY(w) /\ ExactY(w) < (rect[w].y + 1) * Den
        ELSE (rect[w].y - 1) * Den < ExactY(w) /\ ExactY(w) <= rect[w].y * Den

\* C4's case: the Button's text was assigned while the Panel was scrolled by
\* a fraction of a pixel to above the top, and the Button's rect follows the
\* new text and the truncated sum.
C4_Witness ==
    /\ last.op = "set_button_text"
    /\ ExactY("button") < 0
    /\ ExactY("button") % Den # 0
    /\ button.text = <<"a", "b">>
    /\ rect["button"].w = FontWidth(button.text)
    /\ rect["button"].y * Den > ExactY("button")
    /\ \A w \in widgets : scroll[w] = panel_scroll

\* Whether the last operation was handle_event of a press-down inside the
\* bounding rect of widget w (no press-down moves a rect).
PressedInside(w) == Handled("MOUSEBUTTONDOWN") /\ Inside(w, last.event.pos)

\* C5: the Button's callback has been invoked as many times as press-down
\* events inside its bounding rect were handled.
C5_CallsEqualPresses == button.calls = presses["button"]

\* C5's case: with the Panel scrolled, a press-down inside the Button was
\* handled after an earlier one, and then a press-down outside it.
C5_Witness ==
    /\ Handled("MOUSEBUTTONDOWN")
    /\ ~Inside("button", last.event.pos)
    /\ scroll["button"] < 0
    /\ button.calls = MaxPresses

\* C6: the Toggle's state is its initial state (off) after an even number of
\* press-down events inside its bounding rect and on after an odd number,
\* and an event that is no press-down inside it leaves the state as it was.
C6_StateIsParity ==
    /\ toggle.state = (presses["toggle"] % 2 = 1)
    /\ (last.op = "handle_event" /\ ~PressedInside("toggle")) => toggle.state = last.pre.state

\* C6's case: after two press-downs inside the Toggle, a press-down outside
\* it was handled and the Toggle is off again.
C6_Witness ==
    /\ Handled("MOUSEBUTTONDOWN")
    /\ ~Inside("toggle", last.event.pos)
    /\ presses["toggle"] = 2
    /\ ~toggle.state

\* The string t with s inserted at index c.
Inserted(t, c, s) == SubSeq(t, 1, c) \o s \o SubSeq(t, c + 1, Len(t))

\* The first n characters of s.
Take(s, n) == SubSeq(s, 1, IF n < Len(s) THEN n ELSE Len(s))

\* C7: a text-input event carrying s, handled by a focused Input with text t
\* and cursor c, leaves the text t with s inserted at c (cut to max_chars)
\* and the cursor at c + len(s), capped at max_chars.
C7_InsertAdvancesByLength ==
    (Handled("TEXTINPUT") /\ last.pre.input.focused) =>
        LET t == last.pre.input.text
            c == last.pre.input.cursor_pos
            s == last.event.text
            advanced == c + Len(s)
        IN  /\ input.text = Take(Inserted(t, c, s), input.max_chars)
            /\ input.cursor_pos = IF advanced < input.max_chars THEN advanced
                                  ELSE input.max_chars

\* C8: a wheel event of delta d moves Panel.scroll from s to
\* clamp(s + 10 * d, min_scroll, 0) and every widget's scroll offset with it;
\* any other event leaves Panel.scroll as it was.
C8_WheelScrolls ==
    last.op = "handle_event" =>
        LET target == last.pre.panel_scroll + 10 * last.event.precise_y
            clamped == IF target < min_scroll THEN min_scroll
                       ELSE IF target > 0 THEN 0 ELSE target
        IN  IF last.event.type = "MOUSEWHEEL"
            THEN panel_scroll = clamped /\ \A w \in widgets : scroll[w] = clamped
            ELSE panel_scroll = last.pre.panel_scroll

\* C8's case: from scroll 0 a wheel event of delta -1/4 was handled, and the
\* Panel and its widgets are at -10/4, inside the range.
C8_Witness ==
    /\ Handled("MOUSEWHEEL")
    /\ last.pre.panel_scroll = 0
    /\ last.event.precise_y = -1
    /\ min_scroll < -10
    /\ panel_scroll = -10
    /\ \A w \in widgets : scroll[w] = -10

\* C9: a press-down inside the Input's bounding rect leaves it focused, one
\* outside leaves it unfocused, an escape key-down while focused leaves it
\* unfocused, no other event changes focused, and none of these three
\* changes the text.
C9_FocusMachine ==
    last.op = "handle_event" =>
        LET e == last.event
            before == last.pre.input
            press == e.type = "MOUSEBUTTONDOWN"
            escape == e.type = "KEYDOWN" /\ e.key = "K_ESCAPE" /\ before.focused
        IN  /\ (press /\ Inside("input", e.pos)) => input.focused
            /\ (press /\ ~Inside("input", e.pos)) => ~input.focused
            /\ escape => ~input.focused
            /\ (~press /\ ~escape) => input.focused = before.focused
            /\ (press \/ escape) => input.text = before.text

\* C9's case: an escape key-down was handled by a focused Input holding
\* text, which is now unfocused.
C9_Witness ==
    /\ Handled("KEYDOWN")
    /\ last.event.key = "K_ESCAPE"
    /\ last.pre.input.focused
    /\ ~input.focused
    /\ Len(input.text) = 2

\* The rendered width W(i) of the first i characters of the Input's text.
W(i) == FontWidth(SubSeq(input.text, 1, i))

\* The x-offset of the last event from the field's left edge.
ClickX == last.event.pos[1] - rect["input"].x

\* C10: after a press-down inside the Input at x-offset x, if x lies in the
\* bracket [W(i-1), W(i)) the cursor is at i-1 when x is before the bracket's
\* midpoint and at i otherwise; if x >= W(len(text)) it is at len(text); and
\* it is within [0, len(text)].
C10_ClickPlacesCursor ==
    PressedInside("input") =>
        /\ \A i \in 1..Len(input.text) :
              (W(i - 1) <= ClickX /\ ClickX < W(i)) =>
                  input.cursor_pos = IF 2 * ClickX < W(i - 1) + W(i) THEN i - 1 ELSE i
        /\ ClickX >= W(Len(input.text)) => input.cursor_pos = Len(input.text)
        /\ 0 <= input.cursor_pos /\ input.cursor_pos <= Len(input.text)

\* C10's case: a press-down in the first half of the bracket of the second
\* of three characters put the cursor before that character.
C10_Witness ==
    /\ PressedInside("input")
    /\ Len(input.text) = 3
    /\ W(1) <= ClickX /\ ClickX < W(2)
    /\ 2 * ClickX < W(1) + W(2)
    /\ input.cursor_pos = 1
    /\ last.pre.input.cursor_pos = 3

\* Whether the last operation was handle_event, by a focused Input, of a
\* key-down of key k, or of key c with ctrl.
FocusedKey(k, c) ==
    /\ Handled("KEYDOWN")
    /\ last.pre.input.focused
    /\ last.event.key = k \/ (last.event.key = c /\ "KMOD_CTRL" \in last.event.mod)

\* The string t without its i-th character (i from 1).
Without(t, i) == SubSeq(t, 1, i - 1) \o SubSeq(t, i + 1, Len(t))

\* C11: a backspace or ctrl-H key-down on a focused Input with text t and
\* cursor c >= 1 removes the character before the cursor and leaves the
\* cursor at c - 1.
C11_BackspaceDeletesBefore ==
    (FocusedKey("K_BACKSPACE", "K_h") /\ last.pre.input.cursor_pos >= 1) =>
        /\ input.text = Without(last.pre.input.text, last.pre.input.cursor_pos)
        /\ input.cursor_pos = last.pre.input.cursor_pos - 1

\* C11's case: ctrl-H with the cursor after the second of three characters
\* removed the second character.
C11_Witness ==
    /\ FocusedKey("K_BACKSPACE", "K_h")
    /\ last.event.key = "K_h"
    /\ last.pre.input.text = <<"a", "b", "a">>
    /\ last.pre.input.cursor_pos = 2
    /\ input.text = <<"a", "a">>
    /\ input.cursor_pos = 1

\* C12: a delete or ctrl-D key-down on a focused Input with text t and cursor
\* c removes the character at index c, the last one included, leaves the
\* text alone when c = len(t), and leaves the cursor at c.
C12_DeleteRemovesAtCursor ==
    FocusedKey("K_DELETE", "K_d") =>
        LET t == last.pre.input.text
            c == last.pre.input.cursor_pos
        IN  /\ input.text = IF c < Len(t) THEN Without(t, c + 1) ELSE t
            /\ input.cursor_pos = c

\* C12's case: delete with the cursor before the last of three characters
\* removed the last character.
C12_Witness ==
    /\ FocusedKey("K_DELETE", "K_d")
    /\ last.pre.input.text = <<"a", "a", "b">>
    /\ last.pre.input.cursor_pos = 2
    /\ input.text = <<"a", "a">>
    /\ input.cursor_pos = 2

\* C13: a ctrl-U key-down on a focused Input with text t and cursor c leaves
\* the text t[c:] and the cursor at 0.
C13_KillToStart ==
    (FocusedKey("K_NONE", "K_u")) =>
        LET t == last.pre.input.text
            c == last.pre.input.cursor_pos
        IN  /\ input.text = SubSeq(t, c + 1, Len(t))
            /\ input.cursor_pos = 0

\* C13's case: ctrl-U with the cursor after the first of three characters
\* left the other two.
C13_Witness ==
    /\ FocusedKey("K_NONE", "K_u")
    /\ last.pre.input.text = <<"a", "b", "b">>
    /\ last.pre.input.cursor_pos = 1
    /\ input.text = <<"b", "b">>
    /\ input.cursor_pos = 0

\* C14: a text-input event handled by a focused Input whose text already
\* holds max_chars characters leaves the text unchanged, wherever the cursor.
C14_FullInputDropsInsert ==
    (/\ Handled("TEXTINPUT")
     /\ last.pre.input.focused
     /\ Len(last.pre.input.text) = input.max_chars) => input.text = last.pre.input.text

\* C16: a text-input or key-down event handled by an unfocused Input leaves
\* its text, cursor_pos and focused flag unchanged.
C16_UnfocusedIgnoresKeys ==
    (/\ last.op = "handle_event"
     /\ last.event.type \in {"TEXTINPUT", "KEYDOWN"}
     /\ ~last.pre.input.focused) => input = last.pre.input

\* C16's case: a backspace key-down was handled by an unfocused Input holding
\* two characters with the cursor between them.
C16_Witness ==
    /\ Handled("KEYDOWN")
    /\ last.event.key = "K_BACKSPACE"
    /\ ~last.pre.input.focused
    /\ Len(input.text) = 2
    /\ input.cursor_pos = 1
    /\ input = last.pre.input

\* C20: no backspace, delete or ctrl-U key-down handled by a focused Input
\* makes the text longer, and a backspace with the cursor at 0 leaves text
\* and cursor unchanged.
C20_DeletionNeverGrows ==
    (FocusedKey("K_BACKSPACE", "K_h") \/ FocusedKey("K_DELETE", "K_d")
        \/ FocusedKey("K_NONE", "K_u")) =>
        /\ Len(input.text) <= Len(last.pre.input.text)
        /\ (FocusedKey("K_BACKSPACE", "K_h") /\ last.pre.input.cursor_pos = 0) =>
               /\ input.text = last.pre.input.text
               /\ input.cursor_pos = 0

\* C15: input.cursor_pos = v leaves cursor_pos at clamp(v, 0, len(text)), for
\* every integer v.
C15_CursorAssignmentClamps ==
    last.op = "set_cursor_pos" =>
        input.cursor_pos = IF last.value < 0 THEN 0
                           ELSE IF last.value > Len(input.text) THEN Len(input.text)
                           ELSE last.value

\* C17: Panel.update never flips a Toggle and never invokes a Button's
\* callback: with any number of updates between the events, the invocations
\* are the press-downs inside the Button, the state is the parity of the
\* press-downs inside the Toggle, and an update leaves the state as it was.
C17_UpdateNeverActs ==
    /\ button.calls = presses["button"]
    /\ toggle.state = (presses["toggle"] % 2 = 1)
    /\ last.op = "update" => toggle.state = last.pre.state

\* The primary button is held over the Button during an update, after one
\* press-down inside the Button and one inside the Toggle.
C17_Witness ==
    /\ last.op = "update"
    /\ last.value = 1
    /\ Inside("button", last.event.pos)
    /\ button.surf = 2
    /\ button.calls = 1
    /\ presses["toggle"] = 1
    /\ toggle.state

\* Whether two rects have no point in common.
Disjoint(a, b) ==
    \/ a.x + a.w <= b.x \/ b.x + b.w <= a.x
    \/ a.y + a.h <= b.y \/ b.y + b.h <= a.y

\* C18: in a Panel whose Inputs have disjoint rects and the Panel's scroll,
\* with every event delivered through Panel.handle_event, at most one Input
\* is focused.
C18_AtMostOneFocused ==
    (/\ Disjoint(rect["input"], rect["input2"])
     /\ scroll["input"] = panel_scroll
     /\ scroll["input2"] = panel_scroll)
        => ~(input.focused /\ input2.focused)

\* A press-down inside the second Input while the first was focused, the
\* Panel scrolled by a fraction of a pixel: the focus has moved.
C18_Witness ==
    /\ PressedInside("input2")
    /\ last.pre.input.focused
    /\ panel_scroll < 0 /\ panel_scroll % Den # 0
    /\ Disjoint(rect["input"], rect["input2"])
    /\ scroll["input"] = panel_scroll /\ scroll["input2"] = panel_scroll
    /\ input2.focused
    /\ ~input.focused

\* C19: in every state reachable through scroll assignment, handle_event and
\* replacement of the widget set by freshly constructed widgets, every widget
\* the Panel owns has the Panel's scroll.
C19_OwnedWidgetsShareScroll == \A w \in widgets : scroll[w] = panel_scroll

====
